---- MODULE Spec2Model ----
(***************************************************************************)
(* AudioRoad streaming server: the HLS encoder (src/hlsServer.js), the     *)
(* Auto DJ playback engine (src/autoDJ.js, the class that carries the      *)
(* liveModeActive flag, lines 204-437) and the socket / signal handlers    *)
(* that arbitrate between them (src/server.js).                            *)
(*                                                                         *)
(* Time is a discrete clock in milliseconds advanced in steps of TickMs.   *)
(* The offset this.pausedAt is kept in milliseconds here: the code stores  *)
(* (Date.now() - startTime) / 1000 and later multiplies by 1000 again; in  *)
(* this model the pair of conversions is exact.                            *)
(***************************************************************************)
EXTENDS Integers, Sequences, FiniteSets, TLC

VARIABLES
    hls,        \* HLSServer fields: ffmpeg, inputStream, streaming, acceptAutoDJ
    enc,        \* state of the transcode OS process
    dj,         \* AutoDJ fields: playing, liveModeActive, ffmpeg, tempFile, pausedAt, startTime
    procs,      \* the decode OS processes ever spawned by AutoDJ.playTrack
    tasks,      \* suspended async continuations (awaiting a timer or I/O)
    files,      \* cached media files present in /tmp
    nextFile,   \* id of the next cached file name
    now,        \* Date.now()
    bootpc,     \* position of server.js start()
    pipe,       \* source tags of the chunks written to inputStream, in order
    lastCall,   \* the chunk event handled by the last step, if it was one
    hist,       \* history: control events received, whether stop() was invoked
    seg,        \* the transcode process's output directory and a listener
    scen        \* position and counters of the end-to-end gate scenario

vars == <<hls, enc, dj, procs, tasks, files, nextFile, now, bootpc, pipe,
          lastCall, hist, seg, scen>>

----------------------------------------------------------------------------
\* Bounds of the model
MaxTime == 3501
MaxProcs == 2
MaxEvents == 2
MaxChunks == 2
TickMs == 500
MaxSegs == 16
ScChunks == 10
MaxCalls == 3
MaxArrivals == 3

\* Delays of the program, in milliseconds
KillWaitMs == 500
CleanupWaitMs == 200
RestartDelayMs == 2000
LiveStartGraceMs == 500
LiveStopGraceMs == 1000

NoTimer == 0 - 1
NoCode == 0 - 1

Sources == {"auto", "live"}
ChunkKinds == {"buffer", "typed", "other"}

Remove(s, i) == [j \in 1..(Len(s) - 1) |-> IF j < i THEN s[j] ELSE s[j + 1]]

Task(kind, pc, timer, file, caller) ==
    [kind |-> kind, pc |-> pc, timer |-> timer, file |-> file, caller |-> caller]

NoCall == [src |-> "none", kind |-> "none", called |-> FALSE, wrote |-> FALSE]

\* launched and natural are history: the time of the spawn, and whether the
\* exit handler took the natural-completion branch.
NoProc ==
    [st |-> "unused", killed |-> FALSE, exitCode |-> NoCode, seek |-> 0, file |-> 0,
     launched |-> 0, natural |-> FALSE]

NoSnap == [pausedAt |-> 0 - 1, tempFile |-> 0 - 1]

NoHist ==
    [events |-> <<>>, paused |-> FALSE, pauseOffset |-> 0 - 1, pauseSpawned |-> 0,
     stopAfter |-> FALSE, snap |-> NoSnap, twice |-> FALSE, suppressed |-> FALSE,
     fetchFailed |-> 0 - 1, errorExit |-> 0,
     calls |-> 0, arrived |-> <<>>, encOrphans |-> 0]

Pending(ts, kind) == \E i \in 1..Len(ts) : ts[i].kind = kind

Count(ts, kind) == Cardinality({i \in 1..Len(ts) : ts[i].kind = kind})

NumSpawned(ps) == Cardinality({p \in 1..MaxProcs : ps[p].st # "unused"})

LastEvent(h) == IF h.events = <<>> THEN "none" ELSE h.events[Len(h.events)]

----------------------------------------------------------------------------
\* HLSServer

HLSServer_new ==
    [ffmpeg |-> FALSE, inputStream |-> FALSE, streaming |-> FALSE, acceptAutoDJ |-> TRUE]

\* A gate that does not test the streaming flag
Gate_ignoresStreaming(h, source, kind) ==
    /\ h.inputStream
    /\ ~(source = "auto" /\ ~h.acceptAutoDJ)
    /\ kind \in {"buffer", "typed"}

\* The accept/drop decision of processAudio(audioData, source): TRUE when the
\* chunk is written to inputStream.
Gate(h, source, kind) ==
    /\ h.inputStream /\ h.streaming
    /\ ~(source = "auto" /\ ~h.acceptAutoDJ)
    /\ kind \in {"buffer", "typed"}

\* processAudio that writes an accepted chunk twice
processAudio_twice(h, p, source, kind) ==
    IF Gate(h, source, kind) THEN Append(Append(p, source), source) ELSE p

processAudio(h, p, source, kind) ==
    IF Gate(h, source, kind) THEN Append(p, source) ELSE p

\* setLiveMode that also takes the encoder out of the running state
setLiveMode_cycles(h, isLive) == [h EXCEPT !.acceptAutoDJ = ~isLive, !.streaming = FALSE]

setLiveMode(h, isLive) == [h EXCEPT !.acceptAutoDJ = ~isLive]

isStreaming(h) == h.streaming

\* The Mode of the arbitrator, held as HLSServer.acceptAutoDJ
Mode(h) == IF h.acceptAutoDJ THEN "auto" ELSE "live"

\* stop() that also puts the Mode flag back to its initial value
HLSServer_stop_resetsMode(h) ==
    [h EXCEPT !.ffmpeg = FALSE, !.inputStream = FALSE, !.streaming = FALSE,
              !.acceptAutoDJ = TRUE]

\* stop() that releases the handle and the pipe but leaves streaming as it is
HLSServer_stop_keepsStreaming(h) == [h EXCEPT !.ffmpeg = FALSE, !.inputStream = FALSE]

HLSServer_stop(h) ==
    [h EXCEPT !.ffmpeg = FALSE, !.inputStream = FALSE, !.streaming = FALSE]

EncAfterStop(h, e) == IF h.ffmpeg /\ e = "alive" THEN "killed" ELSE e

----------------------------------------------------------------------------
\* The HLS muxer options HLSServer.start() passes to ffmpeg.  Three versions of
\* the file are in the repository: src/hlsServer.js and two earlier ones.
\* deleteThreshold is -hls_delete_threshold (ffmpeg's default is 1); it takes
\* effect only together with the delete_segments flag.
HlsConfig ==
    [listSize |-> 3, deleteSegments |-> TRUE, deleteThreshold |-> 1, tempFile |-> FALSE]

HlsConfigPart003 ==
    [listSize |-> 10, deleteSegments |-> FALSE, deleteThreshold |-> 3, tempFile |-> TRUE]

HlsConfigPart004 ==
    [listSize |-> 6, deleteSegments |-> TRUE, deleteThreshold |-> 1, tempFile |-> TRUE]

HlsConfigs == {HlsConfig, HlsConfigPart003, HlsConfigPart004}

RECURSIVE Digits(_)
Digits(n) == IF n < 10 THEN <<n>> ELSE Append(Digits(n \div 10), n % 10)

RECURSIVE PadStart(_, _)
\* String.prototype.padStart(width, '0')
PadStart(str, width) == IF Len(str) >= width THEN str ELSE PadStart(<<0>> \o str, width)

\* 'segment-%05d.ts' as the muxer prints it: the digits between 'segment-' and '.ts'
SegmentFileName(n) == PadStart(Digits(n), 5)

\* getSegment with a pad width that differs from the muxer's
getSegmentPath_pad6(number) == PadStart(number, 6)

\* getSegment(number): the file name it reads
getSegmentPath(number) == PadStart(number, 5)

\* Segments the muxer deletes after it moved `popped` from the window to the
\* head of the list of old segments (newest first): all but the first
\* deleteThreshold of them.
KeptOld(cfg, old) ==
    IF Len(old) <= cfg.deleteThreshold THEN old ELSE SubSeq(old, 1, cfg.deleteThreshold)

SegSet(q) == {q[i] : i \in 1..Len(q)}

\* The answer of the file-serving routes to the request handled by the last
\* step: n is the segment number asked for (0 for the playlist).
NoResp == [route |-> "none", n |-> 0, status |-> 0]

\* Both routes answer with the same status when the read fails
HttpStatus_same(route, ok) == IF ok THEN 200 ELSE 404

\* GET /live.m3u8 and GET /segment-:number.ts: 200 with the content, or the
\* status of the route's catch block
HttpStatus(route, ok) == IF ok THEN 200 ELSE IF route = "playlist" THEN 503 ELSE 404

SegInit(cfg) ==
    [cfg |-> cfg,
     next |-> 0,            \* number of the segment being written
     window |-> <<>>,       \* segments listed in playlist.m3u8, oldest first
     old |-> <<>>,          \* unreferenced segments kept, newest first
     disk |-> {},           \* completed segment files present in streamPath
     playlist |-> FALSE,    \* playlist.m3u8 exists
     fetched |-> {},        \* numbers a listener read from the playlist
     age |-> 0,             \* segments completed since that read
     got |-> [asked |-> FALSE, ok |-> FALSE, age |-> 0],
     resp |-> NoResp]

\* The muxer closes segment seg.next: it is appended to the window; when the
\* window is full the oldest entry leaves it and, with delete_segments, old
\* entries beyond the threshold are unlinked; then the playlist is rewritten.
SegmentDoneState(g) ==
    LET full == Len(g.window) >= g.cfg.listSize
        win1 == Append(g.window, g.next)
        win2 == IF full THEN Tail(win1) ELSE win1
        old1 == IF full /\ g.cfg.deleteSegments THEN <<Head(win1)>> \o g.old ELSE g.old
        old2 == KeptOld(g.cfg, old1)
    IN [g EXCEPT !.next = @ + 1,
                 !.window = win2,
                 !.old = old2,
                 !.disk = (@ \cup {g.next}) \ (SegSet(old1) \ SegSet(old2)),
                 !.playlist = TRUE,
                 !.age = IF @ < 2 THEN @ + 1 ELSE @,
                 !.got = [asked |-> FALSE, ok |-> FALSE, age |-> 0],
                 !.resp = NoResp]

NoScen ==
    [phase |-> "off", inj |-> 0, acc1 |-> 0, acc3 |-> 0,
     injBefore |-> 0, accBefore |-> 0, injAfter |-> 0, accAfter |-> 0]

----------------------------------------------------------------------------
\* AutoDJ

\* A world is the part of the state the AutoDJ methods read and write; ok
\* becomes FALSE when a spawn would need more than MaxProcs processes.
World(d, ps, ts) == [dj |-> d, procs |-> ps, tasks |-> ts, ok |-> TRUE]

\* subprocess.kill('SIGKILL'): the signal is sent, and .killed set, only while
\* the process has not been reaped.
Kill(ps, p) ==
    IF ps[p].st \in {"alive", "killed"}
    THEN [ps EXCEPT ![p].st = "killed", ![p].killed = TRUE]
    ELSE ps

FreeProc(ps) ==
    IF \E p \in 1..MaxProcs : ps[p].st = "unused"
    THEN CHOOSE p \in 1..MaxProcs :
            ps[p].st = "unused" /\ \A q \in 1..(p - 1) : ps[q].st # "unused"
    ELSE 0

\* The -ss argument built from this.pausedAt
SeekArg(pausedAt) == IF pausedAt > 0 THEN pausedAt ELSE 0

\* spawn('ffmpeg', ffmpegArgs) and the start reference
Spawn(w, t) ==
    LET p == FreeProc(w.procs) IN
    IF p = 0 THEN [w EXCEPT !.ok = FALSE]
    ELSE [w EXCEPT !.procs[p] = [st |-> "alive", killed |-> FALSE, exitCode |-> NoCode,
                                 seek |-> SeekArg(w.dj.pausedAt), file |-> w.dj.tempFile,
                                 launched |-> t, natural |-> FALSE],
                   !.dj.ffmpeg = p,
                   !.dj.startTime = t - w.dj.pausedAt]

\* playTrack once the media file is available: an old handle is killed and
\* cleared and the spawn waits CleanupWaitMs, otherwise the spawn is immediate.
PlayTrackLaunch(w, t, caller) ==
    IF w.dj.ffmpeg # 0
    THEN [w EXCEPT !.procs = Kill(w.procs, w.dj.ffmpeg),
                   !.dj.ffmpeg = 0,
                   !.tasks = Append(w.tasks,
                                Task("playTrack", "cleanup", CleanupWaitMs, 0, caller))]
    ELSE Spawn(w, t)

\* playTrack(track) up to its first await
playTrack(w, t, caller) ==
    IF w.dj.liveModeActive THEN w
    ELSE IF ~w.dj.playing THEN w
    ELSE IF /\ w.dj.ffmpeg # 0
            /\ ~w.procs[w.dj.ffmpeg].killed
            /\ w.procs[w.dj.ffmpeg].exitCode = NoCode
         THEN w
    ELSE IF w.dj.tempFile # 0 /\ w.dj.pausedAt > 0
         THEN PlayTrackLaunch(w, t, caller)
    ELSE [w EXCEPT !.tasks = Append(w.tasks,
                                Task("playTrack", "fetch", NoTimer, 0, caller))]

\* start() without its three guards
AutoDJ_start_unguarded(w, t, caller) ==
    playTrack([w EXCEPT !.dj.playing = TRUE], t, caller)

AutoDJ_start(w, t, caller) ==
    IF w.dj.liveModeActive THEN w
    ELSE IF w.dj.playing THEN w
    ELSE IF w.dj.ffmpeg # 0 /\ ~w.procs[w.dj.ffmpeg].killed THEN w
    ELSE playTrack([w EXCEPT !.dj.playing = TRUE], t, caller)

\* stop() kills the process and waits KillWaitMs before clearing the handle
StopNeedsWait(w) == w.dj.ffmpeg # 0 /\ ~w.procs[w.dj.ffmpeg].killed

\* stop() that kills the process but leaves the engine marked as playing
AutoDJ_stop_keepsPlaying(w, t) ==
    [w EXCEPT !.dj.pausedAt = IF w.dj.startTime # 0 THEN t - w.dj.startTime ELSE @,
              !.procs = IF StopNeedsWait(w) THEN Kill(@, w.dj.ffmpeg) ELSE @]

\* stop() that does not raise the live-mode flag
AutoDJ_stop_noLiveFlag(w, t) ==
    [w EXCEPT !.dj.playing = FALSE,
              !.dj.pausedAt = IF w.dj.startTime # 0 THEN t - w.dj.startTime ELSE @,
              !.procs = IF StopNeedsWait(w) THEN Kill(@, w.dj.ffmpeg) ELSE @]

\* stop() up to its await (or to its end when there is nothing to kill)
AutoDJ_stop(w, t) ==
    [w EXCEPT !.dj.playing = FALSE,
              !.dj.liveModeActive = TRUE,
              !.dj.pausedAt = IF w.dj.startTime # 0 THEN t - w.dj.startTime ELSE @,
              !.procs = IF StopNeedsWait(w) THEN Kill(@, w.dj.ffmpeg) ELSE @]

isPlaying(d) == d.playing

\* A stdout handler that forwards every chunk
stdoutForwards_always(d) == TRUE

\* The stdout handler of the decode process returns early unless playing
stdoutForwards(d) == d.playing

\* The exit handler's test without the status: any exit while playing
NaturalCompletion_anyStatus(d, code) == d.playing /\ ~d.liveModeActive

\* The exit handler's test for a track that played to its end
NaturalCompletion(d, code) == code = 0 /\ d.playing /\ ~d.liveModeActive

\* The exit handler's test after the restart delay
RestartAllowed(d) == d.playing /\ d.ffmpeg = 0 /\ ~d.liveModeActive

\* server.js start() resumes after `await autoDJ.start()` once no continuation
\* of that call is left.
BootAfter(ts, bp) ==
    IF bp = "djWait" /\ ~(\E i \in 1..Len(ts) : ts[i].caller = "boot")
    THEN "serving" ELSE bp

----------------------------------------------------------------------------
InitBase ==
    /\ hls = HLSServer_new
    /\ enc = "none"
    /\ dj = [playing |-> FALSE, liveModeActive |-> FALSE, ffmpeg |-> 0,
             tempFile |-> 0, pausedAt |-> 0, startTime |-> 0]
    /\ procs = [p \in 1..MaxProcs |-> NoProc]
    /\ tasks = <<>>
    /\ files = {}
    /\ nextFile = 1
    /\ now = 1
    /\ bootpc = "init"
    /\ pipe = <<>>
    /\ lastCall = NoCall
    /\ hist = NoHist

Init ==
    /\ InitBase
    /\ seg = SegInit(HlsConfig)
    /\ scen = NoScen

\* server.js start(): await hlsServer.start()
BootHlsStart ==
    /\ bootpc = "init"
    /\ hls' = [hls EXCEPT !.ffmpeg = TRUE, !.inputStream = TRUE, !.streaming = TRUE]
    /\ enc' = "alive"
    /\ bootpc' = "djStart"
    /\ UNCHANGED <<dj, procs, tasks, files, nextFile, now, pipe, hist>>
    /\ lastCall' = NoCall

\* server.js start(): await autoDJ.start(), then httpServer.listen
BootDjStart ==
    /\ bootpc = "djStart"
    /\ LET w == AutoDJ_start(World(dj, procs, tasks), now, "boot") IN
        /\ w.ok
        /\ dj' = w.dj /\ procs' = w.procs /\ tasks' = w.tasks
        /\ bootpc' = BootAfter(w.tasks, "djWait")
    /\ UNCHANGED <<hls, enc, files, nextFile, now, pipe, hist>>
    /\ lastCall' = NoCall

\* playTrack: the download (axios.get + fs.writeFile) settles
FetchDone(i, success) ==
    /\ i \in 1..Len(tasks)
    /\ tasks[i].kind = "playTrack" /\ tasks[i].pc = "fetch"
    /\ IF success
       THEN LET d == [dj EXCEPT !.tempFile = nextFile, !.pausedAt = 0]
                w == PlayTrackLaunch(World(d, procs, Remove(tasks, i)), now, tasks[i].caller)
            IN  /\ w.ok
                /\ dj' = w.dj /\ procs' = w.procs /\ tasks' = w.tasks
                /\ files' = files \cup {nextFile}
                /\ nextFile' = nextFile + 1
                /\ bootpc' = BootAfter(w.tasks, bootpc)
       ELSE /\ tasks' = Remove(tasks, i)
            /\ bootpc' = BootAfter(Remove(tasks, i), bootpc)
            /\ UNCHANGED <<dj, procs, files, nextFile>>
    /\ hist' = [hist EXCEPT !.fetchFailed = IF success THEN @ ELSE NumSpawned(procs)]
    /\ UNCHANGED <<hls, enc, now, pipe>>
    /\ lastCall' = NoCall

\* An unlink that leaves the file in place
Unlinked_keepsFile(fs, f) == fs

\* fs.unlink(f)
Unlinked(fs, f) == fs \ {f}

\* The exit handler's await fs.unlink(this.tempFile) settles
UnlinkDone(i) ==
    /\ i \in 1..Len(tasks)
    /\ tasks[i].kind = "exit" /\ tasks[i].pc = "unlink"
    /\ files' = Unlinked(files, tasks[i].file)
    /\ dj' = [dj EXCEPT !.tempFile = 0, !.pausedAt = 0, !.startTime = 0, !.ffmpeg = 0]
    /\ tasks' = [tasks EXCEPT ![i].pc = "debounce", ![i].timer = RestartDelayMs]
    /\ UNCHANGED <<hls, enc, procs, nextFile, now, bootpc, pipe, hist>>
    /\ lastCall' = NoCall

\* A due timer fires and the continuation that awaited it runs
TimerFire(i) ==
    /\ i \in 1..Len(tasks)
    /\ tasks[i].timer = 0
    /\ LET k == tasks[i].kind
           pc == tasks[i].pc
           rest == Remove(tasks, i)
       IN CASE k = "liveStart" /\ pc = "stopWait" ->
                 /\ dj' = [dj EXCEPT !.ffmpeg = 0]
                 /\ tasks' = [tasks EXCEPT ![i].pc = "grace", ![i].timer = LiveStartGraceMs]
                 /\ UNCHANGED <<hls, enc, procs, bootpc>>
            [] k = "liveStart" /\ pc = "grace" ->
                 /\ hls' = setLiveMode(hls, TRUE)
                 /\ tasks' = rest
                 /\ UNCHANGED <<enc, dj, procs, bootpc>>
            [] k = "liveStop" /\ pc = "grace" ->
                 LET w0 == World(dj, procs, rest)
                     w == IF ~isPlaying(dj) THEN AutoDJ_start(w0, now, "none") ELSE w0
                 IN  /\ w.ok
                     /\ dj' = w.dj /\ procs' = w.procs /\ tasks' = w.tasks
                     /\ UNCHANGED <<hls, enc, bootpc>>
            [] k = "sigterm" /\ pc = "stopWait" ->
                 /\ dj' = [dj EXCEPT !.ffmpeg = 0]
                 /\ hls' = HLSServer_stop(hls)
                 /\ enc' = EncAfterStop(hls, enc)
                 /\ tasks' = rest
                 /\ UNCHANGED <<procs, bootpc>>
            [] k = "stop" /\ pc = "stopWait" ->
                 /\ dj' = [dj EXCEPT !.ffmpeg = 0]
                 /\ tasks' = rest
                 /\ UNCHANGED <<hls, enc, procs, bootpc>>
            [] k = "exit" /\ pc = "debounce" ->
                 LET w0 == World(dj, procs, rest)
                     w == IF RestartAllowed(dj) THEN playTrack(w0, now, "none") ELSE w0
                 IN  /\ w.ok
                     /\ dj' = w.dj /\ procs' = w.procs /\ tasks' = w.tasks
                     /\ UNCHANGED <<hls, enc, bootpc>>
            [] k = "playTrack" /\ pc = "cleanup" ->
                 LET w == Spawn(World(dj, procs, rest), now)
                 IN  /\ w.ok
                     /\ dj' = w.dj /\ procs' = w.procs /\ tasks' = w.tasks
                     /\ bootpc' = BootAfter(w.tasks, bootpc)
                     /\ UNCHANGED <<hls, enc>>
    /\ hist' = [hist EXCEPT
            !.snap = IF tasks[i].kind = "liveStart" /\ tasks[i].pc = "grace"
                     THEN [pausedAt |-> dj.pausedAt, tempFile |-> dj.tempFile] ELSE @,
            !.suppressed = @ \/ (tasks[i].kind = "exit" /\ ~RestartAllowed(dj))]
    /\ UNCHANGED <<files, nextFile, now, pipe>>
    /\ lastCall' = NoCall

\* The clock advances; no timer is left overdue, and an unlink of a local file
\* settles within a tick
AdvanceTime ==
    /\ now + TickMs <= MaxTime
    /\ \A i \in 1..Len(tasks) : tasks[i].timer # 0 /\ tasks[i].pc # "unlink"
    /\ now' = now + TickMs
    /\ tasks' = [i \in 1..Len(tasks) |->
                    IF tasks[i].timer > 0
                    THEN [tasks[i] EXCEPT !.timer = IF @ > TickMs THEN @ - TickMs ELSE 0]
                    ELSE tasks[i]]
    /\ UNCHANGED <<hls, enc, dj, procs, files, nextFile, bootpc, pipe, hist>>
    /\ lastCall' = NoCall

\* socket.on('live-start')
LiveStart ==
    /\ bootpc = "serving"
    /\ Len(hist.events) < MaxEvents
    /\ hist' = [hist EXCEPT
            !.events = Append(@, "liveStart"),
            !.paused = @ \/ isPlaying(dj),
            !.pauseOffset = IF isPlaying(dj) /\ dj.ffmpeg # 0 /\ procs[dj.ffmpeg].st = "alive"
                            THEN procs[dj.ffmpeg].seek + (now - procs[dj.ffmpeg].launched)
                            ELSE @,
            !.pauseSpawned = IF isPlaying(dj) THEN NumSpawned(procs) ELSE @,
            !.twice = LastEvent(hist) = "liveStart" /\ ~Pending(tasks, "liveStart")
                      /\ hist.snap # NoSnap]
    /\ IF isPlaying(dj)
       THEN LET w0 == World(dj, procs, tasks)
                w == AutoDJ_stop(w0, now)
            IN  /\ dj' = w.dj /\ procs' = w.procs
                /\ tasks' = IF StopNeedsWait(w0)
                            THEN Append(tasks, Task("liveStart", "stopWait", KillWaitMs, 0, "none"))
                            ELSE Append(tasks, Task("liveStart", "grace", LiveStartGraceMs, 0, "none"))
       ELSE /\ tasks' = Append(tasks, Task("liveStart", "grace", LiveStartGraceMs, 0, "none"))
            /\ UNCHANGED <<dj, procs>>
    /\ UNCHANGED <<hls, enc, files, nextFile, now, bootpc, pipe>>
    /\ lastCall' = NoCall

\* socket.on('live-stop')
LiveStop ==
    /\ bootpc = "serving"
    /\ Len(hist.events) < MaxEvents
    /\ hist' = [hist EXCEPT !.events = Append(@, "liveStop"), !.twice = FALSE,
                             !.stopAfter = ~Pending(tasks, "liveStart")]
    /\ hls' = setLiveMode(hls, FALSE)
    /\ tasks' = Append(tasks, Task("liveStop", "grace", LiveStopGraceMs, 0, "none"))
    /\ UNCHANGED <<enc, dj, procs, files, nextFile, now, bootpc, pipe>>
    /\ lastCall' = NoCall

\* process.on('SIGTERM'): await autoDJ.stop(); await hlsServer.stop()
Sigterm ==
    /\ Len(hist.events) < MaxEvents
    /\ hist' = [hist EXCEPT !.events = Append(@, "sigterm"), !.paused = TRUE,
                             !.twice = FALSE]
    /\ LET w0 == World(dj, procs, tasks)
           w == AutoDJ_stop(w0, now)
       IN  /\ dj' = w.dj /\ procs' = w.procs
           /\ IF StopNeedsWait(w0)
              THEN /\ tasks' = Append(tasks, Task("sigterm", "stopWait", KillWaitMs, 0, "none"))
                   /\ UNCHANGED <<hls, enc>>
              ELSE /\ hls' = HLSServer_stop(hls)
                   /\ enc' = EncAfterStop(hls, enc)
                   /\ UNCHANGED tasks
    /\ UNCHANGED <<files, nextFile, now, bootpc, pipe>>
    /\ lastCall' = NoCall

\* this.ffmpeg.on('exit', async (code, signal) => ...) of decode process p
ProcExit(p, code) ==
    /\ p \in 1..MaxProcs
    /\ procs[p].st \in {"alive", "killed"}
    /\ code \in {NoCode, 0, 1}
    /\ code = NoCode => procs[p].st = "killed"
    /\ procs' = [procs EXCEPT ![p].st = "exited", ![p].exitCode = code,
                               ![p].natural = NaturalCompletion(dj, code)]
    /\ hist' = [hist EXCEPT
            !.suppressed = @ \/ (code = 0 /\ dj.liveModeActive),
            !.errorExit = IF code > 0 /\ dj.playing /\ ~dj.liveModeActive THEN p ELSE @]
    /\ IF code = NoCode
       THEN /\ dj' = [dj EXCEPT !.ffmpeg = 0]
            /\ UNCHANGED tasks
       ELSE IF NaturalCompletion(dj, code)
       THEN /\ tasks' = Append(tasks, Task("exit", "unlink", NoTimer, dj.tempFile, "none"))
            /\ UNCHANGED dj
       ELSE IF code # 0
       THEN /\ dj' = [dj EXCEPT !.ffmpeg = 0]
            /\ UNCHANGED tasks
       ELSE UNCHANGED <<dj, tasks>>
    /\ UNCHANGED <<hls, enc, files, nextFile, now, bootpc, pipe>>
    /\ lastCall' = NoCall

\* this.ffmpeg.stdout.on('data', ...) of decode process p
DjChunk(p) ==
    /\ p \in 1..MaxProcs
    /\ procs[p].st # "unused"
    /\ Len(pipe) < MaxChunks
    /\ pipe' = IF stdoutForwards(dj) THEN processAudio(hls, pipe, "auto", "buffer") ELSE pipe
    /\ lastCall' = [src |-> "auto", kind |-> "buffer", called |-> stdoutForwards(dj),
                    wrote |-> pipe' # pipe]
    /\ UNCHANGED <<hls, enc, dj, procs, tasks, files, nextFile, now, bootpc, hist>>

\* socket.on('live-audio', audioData)
LiveAudio(kind) ==
    /\ bootpc = "serving"
    /\ kind \in {"typed", "other"}
    /\ Len(pipe) < MaxChunks
    /\ pipe' = IF isStreaming(hls) THEN processAudio(hls, pipe, "live", kind) ELSE pipe
    /\ lastCall' = [src |-> "live", kind |-> kind, called |-> isStreaming(hls),
                    wrote |-> pipe' # pipe]
    /\ UNCHANGED <<hls, enc, dj, procs, tasks, files, nextFile, now, bootpc, hist>>

\* this.ffmpeg.on('exit', ...) of the transcode process
EncExit ==
    /\ enc \in {"alive", "killed"}
    /\ enc' = "exited"
    /\ hls' = [hls EXCEPT !.streaming = FALSE]
    /\ UNCHANGED <<dj, procs, tasks, files, nextFile, now, bootpc, pipe, hist>>
    /\ lastCall' = NoCall

\* The encoder output directory and the scenario script are left alone by the
\* server's own steps.
Frame == UNCHANGED <<seg, scen>>

Next ==
    \/ BootHlsStart /\ Frame
    \/ BootDjStart /\ Frame
    \/ \E i \in 1..Len(tasks) : \E success \in BOOLEAN : FetchDone(i, success) /\ Frame
    \/ \E i \in 1..Len(tasks) : UnlinkDone(i) /\ Frame
    \/ \E i \in 1..Len(tasks) : TimerFire(i) /\ Frame
    \/ AdvanceTime /\ Frame
    \/ LiveStart /\ Frame
    \/ LiveStop /\ Frame
    \/ Sigterm /\ Frame
    \/ \E p \in 1..MaxProcs : \E code \in {NoCode, 0, 1} : ProcExit(p, code) /\ Frame
    \/ \E p \in 1..MaxProcs : DjChunk(p) /\ Frame
    \/ \E kind \in {"typed", "other"} : LiveAudio(kind) /\ Frame
    \/ EncExit /\ Frame

Spec == Init /\ [][Next]_vars

----------------------------------------------------------------------------
\* The output directory of the transcode process and a listener that reads the
\* playlist and then asks for the segments it lists.

InitSeg ==
    /\ InitBase
    /\ \E cfg \in HlsConfigs : seg = SegInit(cfg)
    /\ scen = NoScen

SegBoot ==
    /\ BootHlsStart
    /\ seg' = SegInit(seg.cfg)
    /\ UNCHANGED scen

SegmentDone ==
    /\ enc = "alive"
    /\ seg.next < MaxSegs
    /\ seg' = SegmentDoneState(seg)
    /\ UNCHANGED <<hls, enc, dj, procs, tasks, files, nextFile, now, bootpc, pipe,
                   lastCall, hist, scen>>

\* GET /live.m3u8 -> hlsServer.getPlaylist()
GetPlaylist ==
    /\ seg.playlist
    /\ seg' = [seg EXCEPT !.fetched = SegSet(seg.window), !.age = 0,
                          !.got = [asked |-> FALSE, ok |-> FALSE, age |-> 0],
                          !.resp = NoResp]
    /\ UNCHANGED <<hls, enc, dj, procs, tasks, files, nextFile, now, bootpc, pipe,
                   lastCall, hist, scen>>

\* GET /segment-:number.ts -> hlsServer.getSegment(number), for a number the
\* listener found in the playlist
GetSegment(n) ==
    /\ n \in seg.fetched
    /\ seg' = [seg EXCEPT !.got =
                [asked |-> TRUE,
                 ok |-> \E m \in seg.disk :
                           SegmentFileName(m) = getSegmentPath(SegmentFileName(n)),
                 age |-> seg.age],
                          !.resp = NoResp]
    /\ UNCHANGED <<hls, enc, dj, procs, tasks, files, nextFile, now, bootpc, pipe,
                   lastCall, hist, scen>>

\* fs.readFile(segmentPath) of getSegment(number) finds a file: a completed
\* segment or, when segments are written in place, the one being written
SegmentFileExists(number) ==
    \E m \in seg.disk \cup (IF enc = "alive" /\ ~seg.cfg.tempFile THEN {seg.next} ELSE {}) :
        SegmentFileName(m) = getSegmentPath(number)

\* GET /live.m3u8 from any client.  The HTTP server listens once start() has
\* started the encoder and the Auto DJ; the latter does not touch streamPath.
HttpGetPlaylist ==
    /\ bootpc # "init"
    /\ seg' = [seg EXCEPT !.resp = [route |-> "playlist", n |-> 0,
                                     status |-> HttpStatus("playlist", seg.playlist)]]
    /\ UNCHANGED <<hls, enc, dj, procs, tasks, files, nextFile, now, bootpc, pipe,
                   lastCall, hist, scen>>

\* GET /segment-:number.ts from any client, with the number written with or
\* without leading zeros
HttpGetSegment(n, padded) ==
    /\ bootpc # "init"
    /\ n \in 0..MaxSegs
    /\ LET number == IF padded THEN SegmentFileName(n) ELSE Digits(n) IN
        seg' = [seg EXCEPT !.resp = [route |-> "segment", n |-> n,
                                     status |-> HttpStatus("segment", SegmentFileExists(number))]]
    /\ UNCHANGED <<hls, enc, dj, procs, tasks, files, nextFile, now, bootpc, pipe,
                   lastCall, hist, scen>>

NextSeg ==
    \/ SegBoot
    \/ SegmentDone
    \/ GetPlaylist
    \/ \E n \in seg.fetched : GetSegment(n)
    \/ HttpGetPlaylist
    \/ \E n \in 0..MaxSegs : \E padded \in BOOLEAN : HttpGetSegment(n, padded)

SpecSeg == InitSeg /\ [][NextSeg]_vars

----------------------------------------------------------------------------
\* The end-to-end gate scenario: ScChunks chunks tagged auto, enterLive(),
\* ScChunks chunks tagged live (each before or after the flip), enterAutoDJ(),
\* ScChunks chunks tagged auto.

InitScenario ==
    /\ InitBase
    /\ seg = SegInit(HlsConfig)
    /\ scen = [NoScen EXCEPT !.phase = "boot"]

ScBoot ==
    /\ scen.phase = "boot"
    /\ \/ BootHlsStart
       \/ BootDjStart
       \/ \E i \in 1..Len(tasks) : FetchDone(i, TRUE)
    /\ scen' = IF bootpc' = "serving" THEN [scen EXCEPT !.phase = "auto1"] ELSE scen
    /\ UNCHANGED seg

ScInjectAuto ==
    /\ scen.phase \in {"auto1", "auto3"}
    /\ scen.inj < ScChunks
    /\ pipe' = processAudio(hls, pipe, "auto", "buffer")
    /\ lastCall' = [src |-> "auto", kind |-> "buffer", called |-> TRUE, wrote |-> pipe' # pipe]
    /\ scen' = [scen EXCEPT
            !.inj = @ + 1,
            !.acc1 = IF scen.phase = "auto1" /\ pipe' # pipe THEN @ + 1 ELSE @,
            !.acc3 = IF scen.phase = "auto3" /\ pipe' # pipe THEN @ + 1 ELSE @]
    /\ UNCHANGED <<hls, enc, dj, procs, tasks, files, nextFile, now, bootpc, hist, seg>>

ScEnterLive ==
    /\ scen.phase = "auto1"
    /\ scen.inj = ScChunks
    /\ LiveStart
    /\ scen' = [scen EXCEPT !.phase = "live", !.inj = 0]
    /\ UNCHANGED seg

\* The handlers' timers run, and the killed decode process is reaped
ScHandlerStep ==
    /\ scen.phase \in {"live", "auto3"}
    /\ \/ AdvanceTime
       \/ \E i \in 1..Len(tasks) : TimerFire(i)
       \/ \E p \in 1..MaxProcs : ProcExit(p, NoCode)
    /\ UNCHANGED <<seg, scen>>

ScInjectLive ==
    /\ scen.phase = "live"
    /\ scen.inj < ScChunks
    /\ pipe' = IF isStreaming(hls) THEN processAudio(hls, pipe, "live", "typed") ELSE pipe
    /\ lastCall' = [src |-> "live", kind |-> "typed", called |-> isStreaming(hls),
                    wrote |-> pipe' # pipe]
    /\ scen' = [scen EXCEPT
            !.inj = @ + 1,
            !.injBefore = IF Mode(hls) # "live" THEN @ + 1 ELSE @,
            !.accBefore = IF Mode(hls) # "live" /\ pipe' # pipe THEN @ + 1 ELSE @,
            !.injAfter = IF Mode(hls) = "live" THEN @ + 1 ELSE @,
            !.accAfter = IF Mode(hls) = "live" /\ pipe' # pipe THEN @ + 1 ELSE @]
    /\ UNCHANGED <<hls, enc, dj, procs, tasks, files, nextFile, now, bootpc, hist, seg>>

ScEnterAutoDJ ==
    /\ scen.phase = "live"
    /\ scen.inj = ScChunks
    /\ ~Pending(tasks, "liveStart")
    /\ LiveStop
    /\ scen' = [scen EXCEPT !.phase = "auto3", !.inj = 0]
    /\ UNCHANGED seg

ScFinish ==
    /\ scen.phase = "auto3"
    /\ scen.inj = ScChunks
    /\ ~Pending(tasks, "liveStop")
    /\ scen' = [scen EXCEPT !.phase = "done"]
    /\ UNCHANGED <<hls, enc, dj, procs, tasks, files, nextFile, now, bootpc, pipe,
                   lastCall, hist, seg>>

NextScenario ==
    \/ ScBoot
    \/ ScInjectAuto
    \/ ScEnterLive
    \/ ScHandlerStep
    \/ ScInjectLive
    \/ ScEnterAutoDJ
    \/ ScFinish

SpecScenario == InitScenario /\ [][NextScenario]_vars

----------------------------------------------------------------------------
\* The control events a client of the socket can emit: the names server.js
\* registers a handler for, and the names the README tells the main app to emit.

ControlEvents == {"live-start", "live-stop", "start-live", "stop-live"}

\* socket.on(name, handler): the handler registered for an event name
SocketOn(name) ==
    CASE name = "live-start" -> "liveStart"
      [] name = "live-stop" -> "liveStop"
      [] OTHER -> "none"

\* The client emits a control event; an event without a handler is dropped by
\* socket.io
SocketEmit(name) ==
    /\ name \in ControlEvents
    /\ CASE SocketOn(name) = "liveStart" -> LiveStart
         [] SocketOn(name) = "liveStop" -> LiveStop
         [] OTHER ->
              /\ bootpc = "serving"
              /\ Len(hist.events) < MaxEvents
              /\ hist' = [hist EXCEPT !.events = Append(@, name), !.twice = FALSE]
              /\ lastCall' = NoCall
              /\ UNCHANGED <<hls, enc, dj, procs, tasks, files, nextFile, now, bootpc, pipe>>

NextControl ==
    \/ BootHlsStart /\ Frame
    \/ BootDjStart /\ Frame
    \/ \E i \in 1..Len(tasks) : \E success \in BOOLEAN : FetchDone(i, success) /\ Frame
    \/ \E i \in 1..Len(tasks) : UnlinkDone(i) /\ Frame
    \/ \E i \in 1..Len(tasks) : TimerFire(i) /\ Frame
    \/ AdvanceTime /\ Frame
    \/ \E name \in ControlEvents : SocketEmit(name) /\ Frame
    \/ \E p \in 1..MaxProcs : \E code \in {NoCode, 0, 1} : ProcExit(p, code) /\ Frame

SpecControl == Init /\ [][NextControl]_vars

----------------------------------------------------------------------------
\* The playback engine on its own: start() and stop() called by any client in
\* any order, with the engine's own callbacks in between.

ApiCall(kind) == [src |-> "api", kind |-> kind, called |-> TRUE, wrote |-> FALSE]

\* autoDJ.start()
ApiDjStart ==
    /\ hist.calls < MaxCalls
    /\ LET w == AutoDJ_start(World(dj, procs, tasks), now, "none") IN
        /\ w.ok
        /\ dj' = w.dj /\ procs' = w.procs /\ tasks' = w.tasks
    /\ hist' = [hist EXCEPT !.calls = @ + 1]
    /\ lastCall' = ApiCall("start")
    /\ UNCHANGED <<hls, enc, files, nextFile, now, bootpc, pipe>>

\* autoDJ.stop()
ApiDjStop ==
    /\ hist.calls < MaxCalls
    /\ LET w0 == World(dj, procs, tasks)
           w == AutoDJ_stop(w0, now)
       IN  /\ dj' = w.dj /\ procs' = w.procs
           /\ tasks' = IF StopNeedsWait(w0)
                       THEN Append(tasks, Task("stop", "stopWait", KillWaitMs, 0, "none"))
                       ELSE tasks
    /\ hist' = [hist EXCEPT !.calls = @ + 1, !.paused = TRUE]
    /\ lastCall' = ApiCall("stop")
    /\ UNCHANGED <<hls, enc, files, nextFile, now, bootpc, pipe>>

NextEngine ==
    \/ ApiDjStart /\ Frame
    \/ ApiDjStop /\ Frame
    \/ \E i \in 1..Len(tasks) : \E success \in BOOLEAN : FetchDone(i, success) /\ Frame
    \/ \E i \in 1..Len(tasks) : UnlinkDone(i) /\ Frame
    \/ \E i \in 1..Len(tasks) : TimerFire(i) /\ Frame
    \/ AdvanceTime /\ Frame
    \/ \E p \in 1..MaxProcs : \E code \in {NoCode, 0, 1} : ProcExit(p, code) /\ Frame

SpecEngine == Init /\ [][NextEngine]_vars

----------------------------------------------------------------------------
\* The encoder on its own: start(), stop(), setLiveMode() and processAudio()
\* called by any client in any order, and the exit of the transcode process.

\* hlsServer.start(): a new pipe and a new transcode process replace the
\* fields; a process the old handle referred to is neither killed nor awaited.
ApiHlsStart ==
    /\ hist.calls < MaxCalls
    /\ hls' = [hls EXCEPT !.ffmpeg = TRUE, !.inputStream = TRUE, !.streaming = TRUE]
    /\ enc' = "alive"
    /\ seg' = SegInit(seg.cfg)
    /\ hist' = [hist EXCEPT !.calls = @ + 1,
                             !.encOrphans = IF enc = "alive" THEN @ + 1 ELSE @]
    /\ lastCall' = ApiCall("hlsStart")
    /\ UNCHANGED <<dj, procs, tasks, files, nextFile, now, bootpc, pipe, scen>>

\* hlsServer.stop()
ApiHlsStop ==
    /\ hist.calls < MaxCalls
    /\ hls' = HLSServer_stop(hls)
    /\ enc' = EncAfterStop(hls, enc)
    /\ hist' = [hist EXCEPT !.calls = @ + 1]
    /\ lastCall' = ApiCall("hlsStop")
    /\ UNCHANGED <<dj, procs, tasks, files, nextFile, now, bootpc, pipe, seg, scen>>

\* hlsServer.setLiveMode(isLive)
ApiSetLiveMode(isLive) ==
    /\ hist.calls < MaxCalls
    /\ hls' = setLiveMode(hls, isLive)
    /\ hist' = [hist EXCEPT !.calls = @ + 1]
    /\ lastCall' = ApiCall("setLiveMode")
    /\ UNCHANGED <<enc, dj, procs, tasks, files, nextFile, now, bootpc, pipe, seg, scen>>

\* hlsServer.processAudio(audioData, source); the arrival and the gate's
\* decision are recorded
ApiProcessAudio(source, kind) ==
    /\ Len(hist.arrived) < MaxArrivals
    /\ pipe' = processAudio(hls, pipe, source, kind)
    /\ hist' = [hist EXCEPT !.arrived =
                    Append(@, [src |-> source, accepted |-> Gate(hls, source, kind)])]
    /\ lastCall' = [src |-> source, kind |-> kind, called |-> TRUE, wrote |-> pipe' # pipe]
    /\ UNCHANGED <<hls, enc, dj, procs, tasks, files, nextFile, now, bootpc, seg, scen>>

NextEncoder ==
    \/ ApiHlsStart
    \/ ApiHlsStop
    \/ \E isLive \in BOOLEAN : ApiSetLiveMode(isLive)
    \/ \E source \in Sources : \E kind \in ChunkKinds : ApiProcessAudio(source, kind)
    \/ EncExit /\ Frame

SpecEncoder == Init /\ [][NextEncoder]_vars

----------------------------------------------------------------------------
\* Properties

\* C1: processAudio(chunk, source) writes a well-formed chunk to the input
\* pipe if and only if the encoder is running and the chunk's source tag
\* equals the current Mode.
C1_GateIffSourceIsMode ==
    (lastCall.called /\ lastCall.kind # "other") =>
        (lastCall.wrote <=>
            (hls.inputStream /\ hls.streaming /\ lastCall.src = Mode(hls)))

\* C2: in no reachable state would processAudio accept both a chunk tagged
\* 'auto' and a chunk tagged 'live'.
C2_AtMostOneProducerGated ==
    ~(Gate(hls, "auto", "buffer") /\ Gate(hls, "live", "typed"))

\* A live-start that paused a running decode process has completed and was
\* followed by a live-stop, which has run to completion too, and no fetch or
\* spawn is still in progress.
LiveStopCompleted ==
    /\ Len(hist.events) >= 2
    /\ hist.events[Len(hist.events)] = "liveStop"
    /\ hist.events[Len(hist.events) - 1] = "liveStart"
    /\ \A k \in 1..Len(hist.events) : hist.events[k] # "sigterm"
    /\ hist.pauseOffset >= 0
    /\ hist.stopAfter
    /\ ~Pending(tasks, "liveStart") /\ ~Pending(tasks, "liveStop")
    /\ ~Pending(tasks, "playTrack")

\* C3: once live-start has paused the engine, a completed live-stop has started
\* it again: isPlaying() is true and a decode process launched after the pause
\* is running.
C3_ResumeAfterLive ==
    LiveStopCompleted =>
        /\ dj.playing
        /\ dj.ffmpeg > hist.pauseSpawned
        /\ procs[dj.ffmpeg].st = "alive"

\* C4: the decode process launched after a pause is given the seek value S + T,
\* where S is the seek of the paused process and T the time it had played.
C4_ResumeSeeksToPauseOffset ==
    (LiveStopCompleted /\ hist.pauseOffset > 0) =>
        \E q \in (hist.pauseSpawned + 1)..MaxProcs :
            procs[q].st # "unused" /\ procs[q].seek = hist.pauseOffset

\* C5: after a second live-start handled in a row (the first had completed),
\* the end state is that of one live-start: Mode live, engine not playing, no
\* decode process alive, saved offset and cached file as after the first.
C5_EnterLiveIdempotent ==
    (hist.twice /\ ~Pending(tasks, "liveStart")) =>
        /\ Mode(hls) = "live"
        /\ ~dj.playing
        /\ \A p \in 1..MaxProcs : procs[p].st # "alive"
        /\ dj.pausedAt = hist.snap.pausedAt
        /\ dj.tempFile = hist.snap.tempFile

\* C6: after a natural completion (exit status 0 while playing) with no pause,
\* once the exit handler has run to its end a new decode process has been
\* launched from offset zero on a freshly fetched file and the previous cached
\* file is deleted.
C6_NaturalCompletionRestarts ==
    \A p \in 1..MaxProcs :
        (procs[p].natural /\ ~hist.paused /\ ~Pending(tasks, "exit")
            /\ ~Pending(tasks, "playTrack")) =>
                /\ procs[p].file \notin files
                /\ \E q \in (p + 1)..MaxProcs :
                        /\ procs[q].st # "unused"
                        /\ procs[q].seek = 0
                        /\ procs[q].file \notin {0, procs[p].file}

\* C7: with a pause requested, an exit of the decode process starts no restart:
\* no exit handler takes the natural-completion path, no fetch is started, and
\* a decode process is spawned only by a fetch that was already in progress.
C7_SuppressedRestart ==
    [][hist.paused =>
        /\ Count(tasks', "exit") <= Count(tasks, "exit")
        /\ Count(tasks', "playTrack") <= Count(tasks, "playTrack")
        /\ (NumSpawned(procs') # NumSpawned(procs) =>
                Count(tasks', "playTrack") < Count(tasks, "playTrack"))]_vars

\* A restart was suppressed: status 0 in live mode, or a pause before the
\* restart delay elapsed.
C7_Witness == hist.suppressed /\ hist.paused

\* C8: in the scenario the first and the last ScChunks chunks are accepted, the
\* live chunks injected after the flip to live are accepted and those injected
\* before the flip are rejected.
C8_ScenarioAcceptance ==
    scen.phase = "done" =>
        /\ scen.acc1 = ScChunks
        /\ scen.acc3 = ScChunks
        /\ scen.accAfter = scen.injAfter
        /\ scen.accBefore = 0

\* Segment numbers present in the output directory: the completed segments
\* and, unless segments are written to a temporary file first, the one being
\* written.
SegmentsOnDisk ==
    seg.disk \cup (IF enc = "alive" /\ ~seg.cfg.tempFile THEN {seg.next} ELSE {})

Oldest(S) == CHOOSE n \in S : \A m \in S : n <= m
Newest(S) == CHOOSE n \in S : \A m \in S : n >= m

\* C9: once the window has reached its configured size, the oldest segment on
\* disk is at most (window size + deletion threshold) behind the newest, and
\* at most that many completed segments are on disk.
C9_SegmentRetention ==
    Len(seg.window) >= seg.cfg.listSize =>
        /\ Newest(SegmentsOnDisk) - Oldest(SegmentsOnDisk)
              <= seg.cfg.listSize + seg.cfg.deleteThreshold
        /\ Cardinality(seg.disk) <= seg.cfg.listSize + seg.cfg.deleteThreshold

C11_ReadFailuresDistinctAndHarmless ==
    [][seg'.resp.route # "none" =>
        /\ seg'.resp.route = "playlist" =>
              seg'.resp.status = (IF seg.playlist THEN 200 ELSE 503)
        /\ seg'.resp.route = "segment" =>
              seg'.resp.status = (IF seg'.resp.n \in SegmentsOnDisk THEN 200 ELSE 404)
        /\ UNCHANGED <<hls, enc, dj, procs, tasks, files, pipe>>
        /\ seg'.disk = seg.disk /\ seg'.window = seg.window
        /\ seg'.playlist = seg.playlist]_vars

\* A request for a segment that was produced and has been evicted is answered
\* 404 while the playlist exists.
C11_Witness ==
    /\ seg.resp.route = "segment" /\ seg.resp.status = 404
    /\ seg.resp.n < seg.next /\ seg.resp.n \notin seg.disk
    /\ seg.playlist

\* C12: once the client has emitted 'start-live' the Auto DJ is paused (not
\* playing), and once it has emitted 'stop-live' and every handler has run to
\* its end the Auto DJ is playing.
C12_ReadmeControlEvents ==
    /\ LastEvent(hist) = "start-live" => ~isPlaying(dj)
    /\ (LastEvent(hist) = "stop-live" /\ tasks = <<>>) => isPlaying(dj)

\* C13: a cached file is deleted only by the exit handler of a decode process
\* that exited with status 0 while playing and not in live mode.  A call of
\* stop() keeps the cached file and its name and saves the offset played so
\* far; the exit of a killed process and an error exit keep the file, its name
\* and the offset.
C13_PauseKeepsSession ==
    [][/\ files \ files' # {} =>
            \E p \in 1..MaxProcs :
                /\ procs[p].natural /\ procs[p].exitCode = 0
                /\ files' = files \ {procs[p].file}
       /\ (/\ hist'.events # hist.events
           /\ \/ LastEvent(hist') = "sigterm"
              \/ LastEvent(hist') = "liveStart" /\ isPlaying(dj)) =>
            /\ files' = files
            /\ dj'.tempFile = dj.tempFile
            /\ (dj.ffmpeg # 0 /\ procs[dj.ffmpeg].st = "alive") =>
                    dj'.pausedAt = procs[dj.ffmpeg].seek + (now - procs[dj.ffmpeg].launched)
       /\ \A p \in 1..MaxProcs :
            (procs[p].st # "exited" /\ procs'[p].st = "exited" /\ procs'[p].exitCode # 0) =>
                /\ files' = files
                /\ dj'.tempFile = dj.tempFile
                /\ dj'.pausedAt = dj.pausedAt]_vars

\* The engine was paused while a decode process was running, the killed
\* process has exited and every handler has run to its end: the cached file and
\* a positive offset are still there.
C13_Witness ==
    /\ hist.paused /\ tasks = <<>>
    /\ dj.pausedAt > 0 /\ dj.tempFile \in files
    /\ \E p \in 1..MaxProcs :
          procs[p].st = "exited" /\ procs[p].killed /\ procs[p].file = dj.tempFile

\* C14: after a failed download, with no pause requested, either a retry of
\* playTrack is pending or a decode process has been launched since: the
\* engine is not left without a producer and without a retry.
C14_FetchFailureRetried ==
    (hist.fetchFailed >= 0 /\ ~hist.paused) =>
        \/ Pending(tasks, "playTrack")
        \/ Pending(tasks, "exit")
        \/ NumSpawned(procs) > hist.fetchFailed

\* C15: after the decode process exited with a non-zero status while the
\* engine was playing, with no pause requested, either a retry is pending or a
\* new decode process has been launched for the same file from offset zero.
C15_DecodeErrorRetried ==
    (hist.errorExit > 0 /\ ~hist.paused) =>
        \/ Pending(tasks, "playTrack")
        \/ Pending(tasks, "exit")
        \/ \E q \in (hist.errorExit + 1)..MaxProcs :
              /\ procs[q].st # "unused"
              /\ procs[q].file = procs[hist.errorExit].file
              /\ procs[q].seek = 0

\* C16: when the transcode process has exited on its own (the encoder was not
\* stopped), the encoder is running again or a restart of it is pending.
C16_EncoderRecovered ==
    (enc = "exited" /\ hls.ffmpeg) =>
        \/ isStreaming(hls)
        \/ Pending(tasks, "hlsStart")

\* A step in which HLSServer.stop() runs: the SIGTERM handler reaches it at
\* once when AutoDJ.stop() has nothing to wait for, otherwise after the wait.
HlsStopStep ==
    \/ /\ hist'.events # hist.events /\ LastEvent(hist') = "sigterm"
       /\ Count(tasks', "sigterm") = Count(tasks, "sigterm")
    \/ Count(tasks', "sigterm") < Count(tasks, "sigterm")

\* C17: after HLSServer.stop() the process handle and the input pipe are
\* released, streaming is false and the transcode process is not left running;
\* a stop() on an encoder that is already stopped changes nothing.
C17_HlsStopIdempotent ==
    [][HlsStopStep =>
        /\ ~hls'.ffmpeg /\ ~hls'.inputStream /\ ~hls'.streaming
        /\ enc' # "alive"
        /\ (~hls.ffmpeg /\ ~hls.inputStream /\ ~hls.streaming) =>
                (hls' = hls /\ enc' = enc)]_vars

\* stop() has run twice to its end on an encoder that had been started
C17_Witness ==
    /\ hist.events = <<"sigterm", "sigterm">>
    /\ ~Pending(tasks, "sigterm")
    /\ enc \in {"killed", "exited"}
    /\ hls = HLSServer_stop(hls)

\* C18: Mode flips to live only when the engine has been told to pause, and
\* once a pause has been requested no chunk of the decode process is written
\* to the encoder input, whether Mode is still autodj or already live.
C18_PauseBeforeFlip ==
    [][/\ (Mode(hls) = "auto" /\ Mode(hls') = "live") => ~isPlaying(dj)
       /\ (hist.paused /\ lastCall'.src = "auto") =>
             (~lastCall'.wrote /\ pipe' = pipe)]_vars

\* During the grace interval of live-start, with Mode still autodj and the
\* encoder running, a chunk of the decode process arrived and was not written.
C18_Witness ==
    /\ lastCall.src = "auto" /\ ~lastCall.wrote
    /\ hist.paused /\ Pending(tasks, "liveStart")
    /\ Mode(hls) = "auto" /\ isStreaming(hls) /\ hls.inputStream

\* C19: when a live-stop that followed a pause has run to its end, Mode is
\* autodj and a decode process started by the handler is running whose chunks
\* are forwarded and, with the encoder running, accepted by the gate.
C19_RestartedChunksAccepted ==
    LiveStopCompleted =>
        /\ Mode(hls) = "auto"
        /\ \E q \in (hist.pauseSpawned + 1)..MaxProcs : procs[q].st = "alive"
        /\ stdoutForwards(dj)
        /\ isStreaming(hls) => Gate(hls, "auto", "buffer")

\* Decode processes that have been spawned and have not exited
Running(ps) == {p \in 1..MaxProcs : ps[p].st \in {"alive", "killed"}}

\* C20: at most one decode process exists (spawned and not yet exited) in
\* every reachable state.
C20_AtMostOneDecodeProcess == Cardinality(Running(procs)) <= 1

\* The restart after a natural completion has spawned a second decode process
\* while a download raced with a pause.
C20_Witness ==
    /\ NumSpawned(procs) = 2
    /\ Cardinality(Running(procs)) = 1
    /\ hist.paused

\* C21: a call of start() while the engine is playing, or while its handle
\* refers to a decode process that has not exited, spawns nothing, starts no
\* fetch and leaves playing, the handle, the cached file, the offset and the
\* start reference unchanged.
C21_DoubleStartNoOp ==
    [][(/\ lastCall' = ApiCall("start")
        /\ \/ isPlaying(dj)
           \/ dj.ffmpeg # 0 /\ procs[dj.ffmpeg].st \in {"alive", "killed"}) =>
            UNCHANGED <<dj, procs, tasks, files, nextFile>>]_vars

\* start() was called while the engine was playing with a decode process
\* running, and the process is still the only one.
C21_Witness ==
    /\ lastCall = ApiCall("start")
    /\ hist.calls >= 2
    /\ isPlaying(dj) /\ dj.ffmpeg # 0 /\ procs[dj.ffmpeg].st = "alive"
    /\ NumSpawned(procs) = 1

\* C22: a call of stop() while no decode process is running leaves the stored
\* offset, the cached file and its name, and the processes as they were.
C22_StopReentrant ==
    [][(/\ lastCall' = ApiCall("stop")
        /\ \A p \in 1..MaxProcs : procs[p].st # "alive") =>
            /\ dj'.pausedAt = dj.pausedAt
            /\ dj'.tempFile = dj.tempFile
            /\ files' = files
            /\ procs' = procs]_vars

\* C23: a fetch is started only when the session has no cached file, and a
\* call of start() on a paused session that has a cached file starts no fetch,
\* keeps the offset and launches a decode process on that file at that offset.
C23_FetchOnlyWithoutCache ==
    [][/\ Count(tasks', "playTrack") > Count(tasks, "playTrack") => dj.tempFile = 0
       /\ (/\ lastCall' = ApiCall("start")
           /\ ~isPlaying(dj) /\ dj.tempFile \in files
           /\ tasks = <<>> /\ Running(procs) = {}) =>
             /\ Count(tasks', "playTrack") = 0
             /\ dj'.pausedAt = dj.pausedAt
             /\ \E q \in 1..MaxProcs :
                   /\ procs[q].st = "unused" /\ procs'[q].st = "alive"
                   /\ procs'[q].file = dj.tempFile
                   /\ procs'[q].seek = dj.pausedAt]_vars

LiveTranscoders == hist.encOrphans + (IF enc = "alive" THEN 1 ELSE 0)

\* C25: at most one transcode process (with its input pipe) is running in
\* every reachable state, also after start() has been called more than once.
C25_AtMostOneTranscoder == LiveTranscoders <= 1

\* C26: streaming goes from false to true only in start() at startup and from
\* true to false only in a step that runs HLSServer.stop().
C26_EncoderLifecycle ==
    [][/\ (~hls.streaming /\ hls'.streaming) => bootpc = "init"
       /\ (hls.streaming /\ ~hls'.streaming) => HlsStopStep]_vars

IsModeHandler(t) == t.kind \in {"liveStart", "liveStop"}

\* A step of the live-start or live-stop handler: the event arrives, or one of
\* the handler's continuations runs.
ModeHandlerStep ==
    \/ hist'.events # hist.events /\ LastEvent(hist') \in {"liveStart", "liveStop"}
    \/ now' = now /\ SelectSeq(tasks', IsModeHandler) # SelectSeq(tasks, IsModeHandler)

\* C27: a step of the live-start or live-stop handler, and any step that
\* changes Mode, leaves the transcode process, its handle, the input pipe, the
\* streaming flag and the output directory unchanged.
C27_ModeSwitchKeepsEncoder ==
    [][(ModeHandlerStep \/ Mode(hls') # Mode(hls)) =>
        /\ hls'.ffmpeg = hls.ffmpeg
        /\ hls'.inputStream = hls.inputStream
        /\ hls'.streaming = hls.streaming
        /\ enc' = enc
        /\ seg' = seg]_vars

\* Both handlers have run to their end, Mode went to live and back, and the
\* encoder is still running.
C27_Witness ==
    /\ hist.events = <<"liveStart", "liveStop">>
    /\ hist.snap # NoSnap
    /\ ~Pending(tasks, "liveStart") /\ ~Pending(tasks, "liveStop")
    /\ Mode(hls) = "auto"
    /\ isStreaming(hls) /\ hls.ffmpeg /\ hls.inputStream /\ enc = "alive"

\* C28: a step that handles a chunk leaves Mode, the encoder and the playback
\* session unchanged, and Mode changes only in a step of the live-start or
\* live-stop handler.
C28_DataPathKeepsControlState ==
    [][/\ lastCall'.src \in Sources =>
             UNCHANGED <<hls, enc, dj, procs, tasks, files, nextFile, bootpc>>
       /\ Mode(hls') # Mode(hls) => ModeHandlerStep]_vars

\* A live chunk was accepted in Mode live after a pause, and the session
\* still holds its cached file.
C28_Witness ==
    /\ lastCall.src = "live" /\ lastCall.wrote
    /\ Mode(hls) = "live"
    /\ hist.paused /\ dj.tempFile \in files

RECURSIVE WrittenOf(_)
\* The source tags of the arrivals the gate accepted, in order of arrival
WrittenOf(arr) ==
    IF arr = <<>> THEN <<>>
    ELSE (IF Head(arr).accepted THEN <<Head(arr).src>> ELSE <<>>) \o WrittenOf(Tail(arr))

\* C29: the input pipe holds exactly the chunks the gate accepted, each once
\* and in order of arrival; a dropped chunk is not in it, also after a later
\* mode flip.
C29_AcceptedOnceInOrder == pipe = WrittenOf(hist.arrived)

\* A chunk tagged auto was dropped in Mode live, Mode flipped back, and a
\* later chunk was accepted.
C29_Witness ==
    /\ \E i, j \in 1..Len(hist.arrived) :
          /\ i < j
          /\ hist.arrived[i].src = "auto" /\ ~hist.arrived[i].accepted
          /\ hist.arrived[j].accepted
    /\ Mode(hls) = "auto" /\ isStreaming(hls)
    /\ Len(pipe) >= 1

\* C30: while the engine is paused for a live show (not playing, no shutdown
\* requested), no decode process is alive.
C30_NoProcessWhilePaused ==
    (/\ ~isPlaying(dj) /\ hist.paused
     /\ \A k \in 1..Len(hist.events) : hist.events[k] # "sigterm") =>
        \A p \in 1..MaxProcs : procs[p].st # "alive"

\* Control events were received, every live-start and live-stop handler has
\* run to its end, and no shutdown was requested.
HandlersQuiet ==
    /\ hist.events # <<>>
    /\ \A k \in 1..Len(hist.events) : hist.events[k] # "sigterm"
    /\ ~Pending(tasks, "liveStart") /\ ~Pending(tasks, "liveStop")

\* C31: once every handler has completed, the state matches the last control
\* event: after live-start Mode is live and the engine is not playing, after
\* live-stop Mode is autodj and the engine is playing.
C31_ConvergeOnLastSignal ==
    HandlersQuiet =>
        /\ LastEvent(hist) = "liveStart" => (Mode(hls) = "live" /\ ~isPlaying(dj))
        /\ LastEvent(hist) = "liveStop" => (Mode(hls) = "auto" /\ isPlaying(dj))

\* C32: while no live-start or live-stop handler is in progress, the engine's
\* liveModeActive flag is true exactly when Mode is live.
C32_LiveFlagAgreesWithMode ==
    HandlersQuiet => (dj.liveModeActive <=> Mode(hls) = "live")

\* C33: while playing is true a decode process exists, or a fetch or spawn is
\* in progress, or the exit handler's restart is pending.
C33_PlayingHasProducer ==
    isPlaying(dj) =>
        \/ Running(procs) # {}
        \/ Pending(tasks, "playTrack")
        \/ Pending(tasks, "exit")

\* C34: a chunk of either source that is handled while the encoder is stopped
\* (no input pipe, or streaming false) or after the exit of the transcode
\* process is not written to the input pipe.
C34_NoWriteAfterStop ==
    [][(/\ lastCall'.src \in Sources
        /\ ~hls.inputStream \/ ~hls.streaming \/ enc = "exited") =>
            (pipe' = pipe /\ ~lastCall'.wrote)]_vars

\* The transcode process exited on its own while the engine was playing, and
\* a chunk of the decode process was then handed to processAudio and dropped.
C34_Witness ==
    /\ enc = "exited" /\ hls.inputStream /\ ~hls.streaming
    /\ lastCall.src = "auto" /\ lastCall.called /\ ~lastCall.wrote
    /\ Mode(hls) = "auto"
====
